---- MODULE Spec2Model ----
(***************************************************************************)
(* Model of the Hasura caching worker (src/src/index.js): the fetch        *)
(* listener's routing, the /auth webhook with its IP filter, and the POST  *)
(* /v1/graphql handler with its cache-key derivation, freshness check,     *)
(* origin fetch and background cache.put, run by several fetch events      *)
(* that interleave at the handler's await points.                          *)
(*                                                                         *)
(* Specifications:                                                         *)
(*   Spec          queries and mutations on POST /v1/graphql, with time    *)
(*   ListenerSpec  every route and every kind of request body              *)
(*   AuthSpec      the webhook under every configuration of the IP filter  *)
(*   StoreSpec     the query path with the scheduling of event.waitUntil   *)
(*                                                                         *)
(* Strings that the code parses or formats (header values, timestamps,     *)
(* GraphQL documents) are sequences of one-character strings, so that      *)
(* parseInt, template formatting and whitespace stripping are computed.    *)
(*                                                                         *)
(* Environment assumptions, stated where they are used:                    *)
(*  - caches.default is a get/put store keyed by the key request's URL;    *)
(*    it does not evict, and origin responses carry no Vary header;        *)
(*  - origin responses carry none of the X-Cache-* / X-GQL-Cache-Time      *)
(*    headers themselves;                                                  *)
(*  - Date.now() does not go backwards;                                    *)
(*  - ALLOWED_IPS and HASURA_K8S_CLUSTER_IP are strings or undefined, and  *)
(*    request.method is one of the upper-case method names.                *)
(***************************************************************************)
EXTENDS Integers, Sequences, FiniteSets, TLC

VARIABLES now, cache, pc, req, loc, resp, obs, admitted, completed, env

vars == <<now, cache, pc, req, loc, resp, obs, admitted, completed, env>>

(***************************************************************************)
(* Program constants and model bounds                                      *)
(***************************************************************************)
MIN_CACHE_TTL == 8

MsPerSecond == 1000

STATUS_OK == 200

MaxRequests == 2

MaxTicks == 2

TickMs == 4600

Slots == {"ev1", "ev2"}

SlotOrder == <<"ev1", "ev2">>

(***************************************************************************)
(* Characters and strings                                                  *)
(***************************************************************************)
Digits == <<"0", "1", "2", "3", "4", "5", "6", "7", "8", "9">>

IsDigit(c) == \E i \in 1..10 : Digits[i] = c

DigitVal(c) == (CHOOSE i \in 1..10 : Digits[i] = c) - 1

IsSpace(c) == c \in {" ", "\t", "\n", "\r"}

S_MISS == <<"M", "I", "S", "S">>

S_HIT == <<"H", "I", "T">>

S_EXPIRED == <<"E", "X", "P", "I", "R", "E", "D">>

S_MUTATION == <<"M", "U", "T", "A", "T", "I", "O", "N">>

S_mutation == <<"m", "u", "t", "a", "t", "i", "o", "n">>

S_null == <<"n", "u", "l", "l">>

S_ttl == <<"t", "t", "l", "-">>

S_maxage == <<"m", "a", "x", "-", "a", "g", "e", "=">>

\* `${n}`: the decimal text of an integer
RECURSIVE NatToString(_)
NatToString(n) ==
    IF n < 10 THEN <<Digits[n + 1]>>
    ELSE NatToString(n \div 10) \o <<Digits[(n % 10) + 1]>>

IntToString(n) == IF n < 0 THEN <<"-">> \o NatToString(-n) ELSE NatToString(n)

(***************************************************************************)
(* parseInt(string, 10).  A result is NaN or a number.                     *)
(***************************************************************************)
NaN == [nan |-> TRUE, v |-> 0]

Num(n) == [nan |-> FALSE, v |-> n]

\* what Headers.get returns: null, or the header's text
Null == [present |-> FALSE, value |-> <<>>]

Text(s) == [present |-> TRUE, value |-> s]

RECURSIVE SkipSpace(_)
SkipSpace(s) ==
    IF s # <<>> /\ IsSpace(Head(s)) THEN SkipSpace(Tail(s)) ELSE s

RECURSIVE DigitPrefix(_)
DigitPrefix(s) ==
    IF s # <<>> /\ IsDigit(Head(s)) THEN <<Head(s)>> \o DigitPrefix(Tail(s))
    ELSE <<>>

RECURSIVE DigitsValue(_)
DigitsValue(d) ==
    IF d = <<>> THEN 0
    ELSE 10 * DigitsValue(SubSeq(d, 1, Len(d) - 1)) + DigitVal(d[Len(d)])

parseInt(x) ==
    LET str == IF x.present THEN x.value ELSE S_null
        t == SkipSpace(str)
        neg == t # <<>> /\ Head(t) = "-"
        signed == t # <<>> /\ Head(t) \in {"-", "+"}
        d == DigitPrefix(IF signed THEN Tail(t) ELSE t)
    IN  IF d = <<>> THEN NaN
        ELSE Num(IF neg THEN 0 - DigitsValue(d) ELSE DigitsValue(d))

\* JavaScript's  a || b  on a number a: NaN and 0 are falsy
OrElse(p, dflt) == IF p.nan \/ p.v = 0 THEN dflt ELSE p.v

\* truthiness of a Headers.get result: null and "" are falsy
Truthy(x) == x.present /\ x.value # <<>>

(***************************************************************************)
(* Headers objects: name -> list of values; get joins them with ", ".      *)
(***************************************************************************)
NoHeaders == [n \in {} |-> <<>>]

RECURSIVE JoinValues(_)
JoinValues(vs) ==
    IF Len(vs) = 1 THEN vs[1]
    ELSE vs[1] \o <<",", " ">> \o JoinValues(Tail(vs))

HeadersGet(h, n) == IF n \in DOMAIN h THEN Text(JoinValues(h[n])) ELSE Null

HeadersSet(h, n, v) ==
    [x \in DOMAIN h \cup {n} |-> IF x = n THEN <<v>> ELSE h[x]]

HeadersAppend(h, n, v) ==
    [x \in DOMAIN h \cup {n} |->
        IF x # n THEN h[x]
        ELSE IF n \in DOMAIN h THEN Append(h[n], v) ELSE <<v>>]

(***************************************************************************)
(* sha256: a hex digest, modelled as an injective tag of the message.      *)
(***************************************************************************)
sha256(message) == <<"sha256", message>>

(***************************************************************************)
(* Requests.  A body is the request text, given by what JSON.parse makes   *)
(* of it: invalid JSON, the value null, or an object whose `query` field   *)
(* is absent, a number or a string (the GraphQL document).                 *)
(***************************************************************************)
BodyQuery ==
    [json |-> "object", qtype |-> "string", query |-> <<"{", "u", "}">>]

BodyNotJson == [json |-> "invalid", qtype |-> "absent", query |-> <<>>]

BodyMutation ==
    [json |-> "object", qtype |-> "string",
     query |-> <<" ", "m", "u", "t", "a", "t", "i", "o", "n", "{", "x", "}">>]

Bodies == {BodyQuery, BodyNotJson, BodyMutation}

TTLHeaders == {Null, Text(<<"3">>), Text(<<"a", "b", "c">>), Text(<<"9">>)}

Authorizations == {<<"u", "1">>, <<"u", "2">>}

GraphqlPath == <<"v1", "graphql">>

Searches == {""}

RequestHeaders(ttl, auth) ==
    LET a == HeadersSet(NoHeaders, "Authorization", auth)
    IN  IF ttl.present THEN HeadersSet(a, "X-Cache-TTL", ttl.value) ELSE a

MakeRequest(q, t, a, b) ==
    [method |-> "POST",
     url |-> [pathname |-> GraphqlPath, search |-> q],
     headers |-> RequestHeaders(t, a),
     body |-> b]

\* the base request with the client header X-Skip-Cache: 1
SkipCacheRequest ==
    LET r == MakeRequest("", Null, <<"u", "1">>, BodyQuery)
    IN  [r EXCEPT !.headers = HeadersSet(@, "X-Skip-Cache", <<"1">>)]

\* the requests sent: a base request and those differing from it in one of
\* X-Cache-TTL header, Authorization header, body, X-Skip-Cache header
Requests ==
    { MakeRequest("", t, <<"u", "1">>, BodyQuery) : t \in TTLHeaders }
    \cup { MakeRequest("", Null, a, BodyQuery) : a \in Authorizations }
    \cup { MakeRequest("", Null, <<"u", "1">>, b) : b \in Bodies }
    \cup { SkipCacheRequest }

(***************************************************************************)
(* createHasuraRequest, and the origin.  The origin answers with status    *)
(* 200 and the data it holds at that time for the forwarded document and   *)
(* credentials, or with an error status; or the fetch fails.               *)
(***************************************************************************)
S_json == <<"a", "p", "p", "l", "i", "c", "a", "t", "i", "o", "n", "/", "j", "s", "o", "n">>

DroppedHeaders == {"host", "cf-ray", "cf-connecting-ip", "cf-visitor", "x-forwarded-proto", "x-real-ip"}

createHasuraRequest(originalRequest, body) ==
    LET h == HeadersSet(originalRequest.headers, "Content-Type", S_json)
    IN  [method |-> originalRequest.method,
         headers |-> [n \in DOMAIN h \ DroppedHeaders |-> h[n]],
         body |-> body]

\* a response body other than origin data: "" (none), an origin error
\* page, the runtime's exception page
Opaque(kind) ==
    [kind |-> kind, document |-> BodyNotJson, credentials |-> Null, asOf |-> 0]

OriginData(hasuraRequest, t) ==
    [kind |-> "data",
     document |-> hasuraRequest.body,
     credentials |-> HeadersGet(hasuraRequest.headers, "Authorization"),
     asOf |-> t]

OriginResponses(hasuraRequest, t) ==
    { [status |-> STATUS_OK, body |-> OriginData(hasuraRequest, t), headers |-> NoHeaders],
      [status |-> 500, body |-> Opaque("error"), headers |-> NoHeaders] }

(***************************************************************************)
(* blockMutation                                                           *)
(***************************************************************************)
StripWhitespace(s) == SelectSeq(s, LAMBDA c : ~IsSpace(c))

IndexOfIsZero(s, p) == Len(p) <= Len(s) /\ SubSeq(s, 1, Len(p)) = p

\* mutant of blockMutation: the document's whitespace is not stripped
blockMutation_NoStrip(r) ==
    IF r.body.json # "object" \/ r.body.qtype # "string" THEN FALSE
    ELSE IndexOfIsZero(r.body.query, S_mutation)

\* mutant of blockMutation: the keyword may stand anywhere in the document
blockMutation_Anywhere(r) ==
    IF r.body.json # "object" \/ r.body.qtype # "string" THEN FALSE
    ELSE LET q == StripWhitespace(r.body.query)
         IN  \E i \in 1..Len(q) :
                IndexOfIsZero(SubSeq(q, i, Len(q)), S_mutation)

blockMutation(r) ==
    IF r.body.json # "object" \/ r.body.qtype # "string" THEN FALSE
    ELSE IndexOfIsZero(StripWhitespace(r.body.query), S_mutation)

(***************************************************************************)
(* String methods used by the IP filter and the webhook                    *)
(***************************************************************************)
Includes(s, c) == \E i \in 1..Len(s) : s[i] = c

StartsWith(s, p) == Len(p) <= Len(s) /\ SubSeq(s, 1, Len(p)) = p

\* s.split(c) for a one-character separator; "".split(c) is [""]
RECURSIVE Split(_, _)
Split(s, c) ==
    IF ~Includes(s, c) THEN <<s>>
    ELSE LET i == CHOOSE k \in 1..Len(s) :
                      s[k] = c /\ \A j \in 1..(k - 1) : s[j] # c
         IN  <<SubSeq(s, 1, i - 1)>> \o Split(SubSeq(s, i + 1, Len(s)), c)

RECURSIVE TrimEnd(_)
TrimEnd(s) ==
    IF s # <<>> /\ IsSpace(s[Len(s)]) THEN TrimEnd(SubSeq(s, 1, Len(s) - 1)) ELSE s

Trim(s) == TrimEnd(SkipSpace(s))

S_10 == <<"1", "0", ".">>

S_172 == <<"1", "7", "2", ".">>

S_192_168 == <<"1", "9", "2", ".", "1", "6", "8", ".">>

S_user == <<"u", "s", "e", "r">>

(***************************************************************************)
(* isIPAllowed.  ALLOWED_IPS and HASURA_K8S_CLUSTER_IP are bindings of     *)
(* globalThis: a string, or undefined (Null).  ip is a string or null.     *)
(***************************************************************************)
\* mutant of isIPAllowed: a network/prefix rule admits every private range
isIPAllowed_AnyPrivate(ip, e) ==
    IF ~Truthy(e.ALLOWED_IPS) /\ ~Truthy(e.HASURA_K8S_CLUSTER_IP) THEN TRUE
    ELSE IF /\ Truthy(e.ALLOWED_IPS)
            /\ ip.present
            /\ LET allowedList == Split(e.ALLOWED_IPS.value, ",")
               IN  \E i \in 1..Len(allowedList) : Trim(allowedList[i]) = ip.value
         THEN TRUE
    ELSE IF Truthy(e.HASURA_K8S_CLUSTER_IP) /\ Truthy(ip)
         THEN IF Includes(e.HASURA_K8S_CLUSTER_IP.value, "/")
              THEN \/ StartsWith(ip.value, S_10)
                   \/ StartsWith(ip.value, S_172)
                   \/ StartsWith(ip.value, S_192_168)
              ELSE ip.value = e.HASURA_K8S_CLUSTER_IP.value
    ELSE FALSE

\* mutant of isIPAllowed: a missing source IP is compared as the empty string
isIPAllowed_MissingAsEmpty(ip, e) ==
    IF ~Truthy(e.ALLOWED_IPS) /\ ~Truthy(e.HASURA_K8S_CLUSTER_IP) THEN TRUE
    ELSE IF /\ Truthy(e.ALLOWED_IPS)
            /\ LET allowedList == Split(e.ALLOWED_IPS.value, ",")
               IN  \E i \in 1..Len(allowedList) : Trim(allowedList[i]) = ip.value
         THEN TRUE
    ELSE IF Truthy(e.HASURA_K8S_CLUSTER_IP) /\ Truthy(ip)
         THEN IF Includes(e.HASURA_K8S_CLUSTER_IP.value, "/")
              THEN LET network == Split(e.HASURA_K8S_CLUSTER_IP.value, "/")[1]
                   IN  \/ StartsWith(network, S_10) /\ StartsWith(ip.value, S_10)
                       \/ StartsWith(network, S_172) /\ StartsWith(ip.value, S_172)
                       \/ StartsWith(network, S_192_168) /\ StartsWith(ip.value, S_192_168)
              ELSE ip.value = e.HASURA_K8S_CLUSTER_IP.value
    ELSE FALSE

isIPAllowed(ip, e) ==
    IF ~Truthy(e.ALLOWED_IPS) /\ ~Truthy(e.HASURA_K8S_CLUSTER_IP) THEN TRUE
    ELSE IF /\ Truthy(e.ALLOWED_IPS)
            /\ ip.present
            /\ LET allowedList == Split(e.ALLOWED_IPS.value, ",")
               IN  \E i \in 1..Len(allowedList) : Trim(allowedList[i]) = ip.value
         THEN TRUE
    ELSE IF Truthy(e.HASURA_K8S_CLUSTER_IP) /\ Truthy(ip)
         THEN IF Includes(e.HASURA_K8S_CLUSTER_IP.value, "/")
              THEN LET network == Split(e.HASURA_K8S_CLUSTER_IP.value, "/")[1]
                   IN  \/ StartsWith(network, S_10) /\ StartsWith(ip.value, S_10)
                       \/ StartsWith(network, S_172) /\ StartsWith(ip.value, S_172)
                       \/ StartsWith(network, S_192_168) /\ StartsWith(ip.value, S_192_168)
              ELSE ip.value = e.HASURA_K8S_CLUSTER_IP.value
    ELSE FALSE

(***************************************************************************)
(* handleAuthWebhook.  No statement of its try block throws on a request   *)
(* whose headers and URL are strings, so the catch (lines 108-116) is not  *)
(* reached and the function returns one of two responses.                  *)
(***************************************************************************)
\* lines 72-74:  a || b?.split(',')[0]?.trim() || c
ClientIP(r) ==
    LET cf == HeadersGet(r.headers, "CF-Connecting-IP")
        xff == HeadersGet(r.headers, "X-Forwarded-For")
        first == IF xff.present THEN Text(Trim(Split(xff.value, ",")[1])) ELSE Null
    IN  IF Truthy(cf) THEN cf
        ELSE IF Truthy(first) THEN first
        ELSE HeadersGet(r.headers, "X-Real-IP")

\* a response body made by the worker itself: JSON.stringify of the session
\* variables, or a plain text
RoleBody(role) ==
    [kind |-> "role", document |-> BodyNotJson, credentials |-> Text(role), asOf |-> 0]

Forbidden == [status |-> 403, body |-> Opaque("Forbidden"), headers |-> NoHeaders]

RoleDecision(role) ==
    [status |-> STATUS_OK, body |-> RoleBody(role),
     headers |-> HeadersSet(NoHeaders, "Content-Type", S_json)]

\* mutant of handleAuthWebhook: the IP filter is applied to X-Real-IP alone
handleAuthWebhook_RealIPOnly(request, e) ==
    IF ~isIPAllowed(HeadersGet(request.headers, "X-Real-IP"), e) THEN Forbidden
    ELSE RoleDecision(S_user)

handleAuthWebhook(request, e) ==
    IF ~isIPAllowed(ClientIP(request), e) THEN Forbidden
    ELSE RoleDecision(S_user)

(***************************************************************************)
(* handleNonCachedRequest and the fetch listener's routing                 *)
(***************************************************************************)
NotFound == [status |-> 404, body |-> Opaque("Not Found"), headers |-> NoHeaders]

handleNonCachedRequest(request) == NotFound

\* line 263, the listener's catch: it guards the synchronous routing only,
\* which does not throw
ErrorThrown == [status |-> STATUS_OK, body |-> Opaque("Error thrown"), headers |-> NoHeaders]

AuthPath == <<"auth">>

\* String.prototype.toUpperCase on a method name
toUpperCase(m) ==
    CASE m = "post" -> "POST"
      [] m = "get" -> "GET"
      [] m = "options" -> "OPTIONS"
      [] OTHER -> m

\* mutant of Route: the GraphQL path is cached whatever the method
Route_AnyMethod(r) ==
    IF r.url.pathname = AuthPath /\ r.method = "GET" THEN "auth"
    ELSE IF r.url.pathname = GraphqlPath THEN "graphql"
    ELSE "notfound"

\* lines 251-260: which handler is given to event.respondWith
Route(r) ==
    IF r.url.pathname = AuthPath /\ r.method = "GET" THEN "auth"
    ELSE IF r.url.pathname = GraphqlPath /\ toUpperCase(r.method) = "POST" THEN "graphql"
    ELSE "notfound"

(***************************************************************************)
(* Deployments and the requests sent besides POST /v1/graphql queries      *)
(***************************************************************************)
IP_10_0_0_1 == S_10 \o <<"0", ".", "0", ".", "1">>

IP_10_0_0_2 == S_10 \o <<"0", ".", "0", ".", "2">>

IP_172_16_0_9 == S_172 \o <<"1", "6", ".", "0", ".", "9">>

IP_192_168_1_1 == S_192_168 \o <<"1", ".", "1">>

IP_1_2_3_4 == <<"1", ".", "2", ".", "3", ".", "4">>

\* undefined, "", "10.0.0.1", "10.0.0.1, 1.2.3.4 ", "10.0.0.1,"
AllowedIPsSettings ==
    {Null, Text(<<>>), Text(IP_10_0_0_1),
     Text(IP_10_0_0_1 \o <<",", " ">> \o IP_1_2_3_4 \o <<" ">>),
     Text(IP_10_0_0_1 \o <<",">>)}

\* undefined, "10.0.0.0/8", "172.16.0.0/12", "192.168.0.0/16", "8.8.8.0/24",
\* "10.0.0.2"
ClusterIPSettings ==
    {Null,
     Text(S_10 \o <<"0", ".", "0", ".", "0", "/", "8">>),
     Text(S_172 \o <<"1", "6", ".", "0", ".", "0", "/", "1", "2">>),
     Text(S_192_168 \o <<"0", ".", "0", "/", "1", "6">>),
     Text(<<"8", ".", "8", ".", "8", ".", "0", "/", "2", "4">>),
     Text(IP_10_0_0_2)}

Environments ==
    [ALLOWED_IPS : AllowedIPsSettings, HASURA_K8S_CLUSTER_IP : ClusterIPSettings]

\* the deployment of the spec's example: allow-list ["10.0.0.1"], no prefix rule
AllowListOnly == [ALLOWED_IPS |-> Text(IP_10_0_0_1), HASURA_K8S_CLUSTER_IP |-> Null]

BodyEmpty == [json |-> "empty", qtype |-> "absent", query |-> <<>>]

WithHeader(h, n, v) == IF v.present THEN HeadersSet(h, n, v.value) ELSE h

WebhookRequest(q, cf, xff, real) ==
    [method |-> "GET",
     url |-> [pathname |-> AuthPath, search |-> q],
     headers |-> WithHeader(WithHeader(WithHeader(NoHeaders,
                     "CF-Connecting-IP", cf), "X-Forwarded-For", xff), "X-Real-IP", real),
     body |-> BodyEmpty]

\* X-Forwarded-For: "1.2.3.4, 10.0.0.1" and "10.0.0.2 ,x"
WebhookRequests ==
    { WebhookRequest(q, cf, xff, real) :
        q \in {"", "x-hasura-role=admin"},
        cf \in {Null, Text(IP_10_0_0_1), Text(IP_192_168_1_1)},
        xff \in {Null,
                 Text(IP_1_2_3_4 \o <<",", " ">> \o IP_10_0_0_1),
                 Text(IP_10_0_0_2 \o <<" ", ",", "x">>)},
        real \in {Null, Text(IP_172_16_0_9), Text(<<>>)} }

\* bodies by what JSON.parse and the `query` field make of them
BodyNull == [json |-> "null", qtype |-> "absent", query |-> <<>>]

BodyJsonString == [json |-> "string", qtype |-> "absent", query |-> <<>>]

BodyNoQuery == [json |-> "object", qtype |-> "absent", query |-> <<>>]

BodyNumberQuery == [json |-> "object", qtype |-> "number", query |-> <<>>]

BodySplitKeyword ==
    [json |-> "object", qtype |-> "string",
     query |-> <<"m", "u", "\n", "t", "a", "t", "i", "o", "n", " ", "{", "x", "}">>]

BodyInnerKeyword ==
    [json |-> "object", qtype |-> "string",
     query |-> <<"{", "m", "u", "t", "a", "t", "i", "o", "n", "}">>]

BodyShort == [json |-> "object", qtype |-> "string", query |-> <<"m", "u", "t">>]

ClassifiedBodies ==
    Bodies \cup {BodyNull, BodyJsonString, BodyNoQuery, BodyNumberQuery,
                 BodySplitKeyword, BodyInnerKeyword, BodyShort}

Methods == {"GET", "POST", "OPTIONS", "PUT"}

Paths == {GraphqlPath, AuthPath, <<"v1">>, <<"v1", "graphql", "x">>}

PlainRequest(method, path) ==
    [method |-> method,
     url |-> [pathname |-> path, search |-> ""],
     headers |-> RequestHeaders(Null, <<"u", "1">>),
     body |-> IF method \in {"POST", "PUT"} THEN BodyQuery ELSE BodyEmpty]

\* every method on every path, POST /v1/graphql with every kind of body,
\* and the webhook called from an allowed address
RoutedRequests ==
    { PlainRequest(method, path) : method \in Methods, path \in Paths }
    \cup { MakeRequest("", Null, <<"u", "1">>, b) : b \in ClassifiedBodies }
    \cup { WebhookRequest("", Text(IP_10_0_0_1), Null, Null) }

(***************************************************************************)
(* createCacheKey                                                          *)
(***************************************************************************)
\* mutant of KeyTTL: the TTL preference is left out of the key
KeyTTL_Fixed(r) == MIN_CACHE_TTL

KeyTTL(r) == OrElse(parseInt(HeadersGet(r.headers, "X-Cache-TTL")), MIN_CACHE_TTL)

\* mutant of createCacheKey: the body hash is left out of the key
createCacheKey_NoBodyHash(r, body) ==
    LET clientTTL == KeyTTL(r)
        ttlContext == sha256(S_ttl \o IntToString(clientTTL))
    IN  [url |-> [pathname |-> r.url.pathname \o <<ttlContext>>,
                  search |-> r.url.search],
         headers |-> r.headers,
         method |-> "GET"]

createCacheKey(r, body) ==
    LET bodyHash == sha256(body)
        clientTTL == KeyTTL(r)
        ttlContext == sha256(S_ttl \o IntToString(clientTTL))
    IN  [url |-> [pathname |-> r.url.pathname \o <<ttlContext, bodyHash>>,
                  search |-> r.url.search],
         headers |-> r.headers,
         method |-> "GET"]

\* caches.default holds request/response pairs and indexes a pair by the
\* key request's URL (the key's headers take no part: no Vary)
CacheIndex(key) == key.url

CacheMatchResult(c, key) ==
    IF CacheIndex(key) \in DOMAIN c
    THEN [found |-> TRUE, request |-> c[CacheIndex(key)].request,
          response |-> c[CacheIndex(key)].response]
    ELSE [found |-> FALSE]

\* mutant of CachePutResult: a re-store keeps the headers of the entry it
\* replaces
CachePutResult_Merge(c, key, response) ==
    [u \in DOMAIN c \cup {CacheIndex(key)} |->
        IF u # CacheIndex(key) THEN c[u]
        ELSE [request |-> key,
              response |-> IF u \in DOMAIN c
                           THEN [response EXCEPT !.headers = c[u].response.headers]
                           ELSE response]]

\* mutant of CachePutResult: an entry already stored under the key is kept
CachePutResult_KeepExisting(c, key, response) ==
    [u \in DOMAIN c \cup {CacheIndex(key)} |->
        IF u \in DOMAIN c THEN c[u] ELSE [request |-> key, response |-> response]]

CachePutResult(c, key, response) ==
    [u \in DOMAIN c \cup {CacheIndex(key)} |->
        IF u = CacheIndex(key) THEN [request |-> key, response |-> response] ELSE c[u]]

(***************************************************************************)
(* handlePostRequest, piece by piece                                       *)
(***************************************************************************)
\* mutant of ClientTTL: the minimum is the fallback only, not a floor
ClientTTL_NoFloor(r) ==
    OrElse(parseInt(HeadersGet(r.headers, "X-Cache-TTL")), MIN_CACHE_TTL)

\* lines 165-166
ClientTTL(r) ==
    LET p == parseInt(HeadersGet(r.headers, "X-Cache-TTL"))
    IN  IF p.nan \/ p.v < MIN_CACHE_TTL THEN MIN_CACHE_TTL ELSE p.v

\* mutant of CacheTTL: half of the recorded TTL is applied
CacheTTL_Halved(response, clientTTL) ==
    OrElse(parseInt(HeadersGet(response.headers, "X-Cache-TTL")), clientTTL) \div 2

\* lines 185 and 220
CacheTTL(response, clientTTL) ==
    OrElse(parseInt(HeadersGet(response.headers, "X-Cache-TTL")), clientTTL)

\* lines 187 and 222; Math.floor of a quotient by a positive number
AgeInSeconds(t, cacheTime) == (t - cacheTime) \div MsPerSecond

\* mutant of IsExpired: an entry whose age equals its TTL is already expired
IsExpired_AtTTL(response, clientTTL, t) ==
    LET cacheTime == HeadersGet(response.headers, "X-GQL-Cache-Time")
        cacheTTL == CacheTTL(response, clientTTL)
        ct == parseInt(cacheTime)
    IN  /\ Truthy(cacheTime)
        /\ ~ct.nan
        /\ AgeInSeconds(t, ct.v) >= cacheTTL

\* lines 183-193: TRUE when the matched response is treated as a miss
IsExpired(response, clientTTL, t) ==
    LET cacheTime == HeadersGet(response.headers, "X-GQL-Cache-Time")
        cacheTTL == CacheTTL(response, clientTTL)
        ct == parseInt(cacheTime)
    IN  /\ Truthy(cacheTime)
        /\ ~ct.nan
        /\ AgeInSeconds(t, ct.v) > cacheTTL

\* mutant of MissResponse: the status is MISS also after an expired entry
MissResponse_AlwaysMiss(origin, cacheExpired, clientTTL, t) ==
    LET h1 == HeadersAppend(origin.headers, "X-GQL-Cache-Time", IntToString(t))
        h2 == HeadersAppend(h1, "X-Cache-Status", S_MISS)
        h3 == HeadersSet(h2, "Cache-Control", S_maxage \o IntToString(clientTTL))
        h4 == HeadersSet(h3, "X-Cache-TTL", IntToString(clientTTL))
    IN  [status |-> origin.status, body |-> origin.body, headers |-> h4]

\* lines 202-208
MissResponse(origin, cacheExpired, clientTTL, t) ==
    LET h1 == HeadersAppend(origin.headers, "X-GQL-Cache-Time", IntToString(t))
        h2 == HeadersAppend(h1, "X-Cache-Status",
                            IF cacheExpired THEN S_EXPIRED ELSE S_MISS)
        h3 == HeadersSet(h2, "Cache-Control", S_maxage \o IntToString(clientTTL))
        h4 == HeadersSet(h3, "X-Cache-TTL", IntToString(clientTTL))
    IN  [status |-> origin.status, body |-> origin.body, headers |-> h4]

\* lines 215-227
HitResponse(response, clientTTL, t) ==
    LET h1 == HeadersAppend(response.headers, "X-Cache-Status", S_HIT)
        cacheTime == HeadersGet(response.headers, "X-GQL-Cache-Time")
        cacheTTL == CacheTTL(response, clientTTL)
        ct == parseInt(cacheTime)
        h2 == IF ~Truthy(cacheTime) THEN h1
              ELSE HeadersAppend(
                     HeadersAppend(h1, "X-Cache-Age",
                        IF ct.nan THEN <<"N", "a", "N">>
                        ELSE IntToString(AgeInSeconds(t, ct.v))),
                     "X-Cache-TTL", IntToString(cacheTTL))
    IN  [status |-> response.status, body |-> response.body, headers |-> h2]

\* lines 234-235
MutationResponse(origin) ==
    [status |-> origin.status, body |-> origin.body,
     headers |-> HeadersAppend(origin.headers, "X-Cache-Status", S_MUTATION)]

\* mutant of IsCacheable: any status from 200 up is stored
IsCacheable_Any(response) == response.status >= STATUS_OK

\* line 211
IsCacheable(response) == response.status = STATUS_OK

(***************************************************************************)
(* State.                                                                  *)
(*   now        Date.now(), in milliseconds                                *)
(*   cache      caches.default: key URL -> stored request/response pair   *)
(*   pc         per fetch event: idle, match (awaiting cache.match),       *)
(*              fetch / forward (awaiting the origin), put (response       *)
(*              returned, waitUntil(cache.put) outstanding), done          *)
(*   req        the event's request                                        *)
(*   loc        the handler's locals                                       *)
(*   resp       the response the event was answered with                   *)
(*   obs, completed   history of what each event did                       *)
(*   admitted   number of requests received so far                         *)
(*   env        globalThis.ALLOWED_IPS and .HASURA_K8S_CLUSTER_IP, read     *)
(*              once when the worker starts                                *)
(***************************************************************************)
NoRequest ==
    [method |-> "", url |-> [pathname |-> <<>>, search |-> ""],
     headers |-> NoHeaders, body |-> BodyNotJson]

NoResponse == [status |-> 0, body |-> Opaque(""), headers |-> NoHeaders]

\* what the runtime answers when the promise given to respondWith rejects
WorkerException == [status |-> 500, body |-> Opaque("exception"), headers |-> NoHeaders]

NoKey == [url |-> [pathname |-> <<>>, search |-> ""], headers |-> NoHeaders, method |-> ""]

NoLocals ==
    [clientTTL |-> MIN_CACHE_TTL, isMutation |-> FALSE, cacheKey |-> NoKey,
     cacheExpired |-> FALSE, stored |-> NoResponse]

NoObs ==
    [calls |-> 0, ops |-> {}, found |-> "na", priorFresh |-> FALSE, lookupAt |-> 0,
     entry |-> [request |-> NoKey, response |-> NoResponse],
     origin |-> NoResponse, prior |-> {}]

\* what makes two requests identical: URL, X-Cache-TTL header, body bytes
Identity(r) ==
    [url |-> r.url, ttl |-> HeadersGet(r.headers, "X-Cache-TTL"), body |-> r.body]

\* the worker has started: nothing cached, no event in progress
Started ==
    /\ now = 0
    /\ cache = [u \in {} |-> [request |-> NoKey, response |-> NoResponse]]
    /\ pc = [s \in Slots |-> "idle"]
    /\ req = [s \in Slots |-> NoRequest]
    /\ loc = [s \in Slots |-> NoLocals]
    /\ resp = [s \in Slots |-> NoResponse]
    /\ obs = [s \in Slots |-> NoObs]
    /\ admitted = 0
    /\ completed = {}

Init == Started /\ env = AllowListOnly

\* any deployment
InitAnyEnvironment == Started /\ env \in Environments

(***************************************************************************)
(* The fetch listener routes POST /v1/graphql to handlePostRequest, which  *)
(* runs to its first await on shared state (cache.match or fetch).         *)
(***************************************************************************)
Available(s) == pc[s] \in {"idle", "done"}

\* events are anonymous: a new one takes the first available slot, and the
\* records of the events that have finished are dropped
FirstAvailable(s) ==
    /\ Available(s)
    /\ \A i, j \in 1..Len(SlotOrder) :
          (SlotOrder[j] = s /\ i < j) => ~Available(SlotOrder[i])

Receive(s, r) ==
    /\ FirstAvailable(s)
    /\ admitted < MaxRequests
    /\ Route(r) = "graphql"
    /\ LET body == r.body
           clientTTL == ClientTTL(r)
           isMutation == blockMutation(r)
           locals == [clientTTL |-> clientTTL,
                      isMutation |-> isMutation,
                      cacheKey |-> IF isMutation THEN NoKey ELSE createCacheKey(r, body),
                      cacheExpired |-> FALSE,
                      stored |-> NoResponse]
           seen == [NoObs EXCEPT
                      !.prior = {parseInt(c.t).v :
                                    c \in {x \in completed : x.id = Identity(r)}}]
       IN  /\ loc' = [x \in Slots |-> IF x = s THEN locals
                                      ELSE IF Available(x) THEN NoLocals ELSE loc[x]]
           /\ pc' = [x \in Slots |-> IF x = s THEN (IF isMutation THEN "forward" ELSE "match")
                                     ELSE IF Available(x) THEN "idle" ELSE pc[x]]
           /\ req' = [x \in Slots |-> IF x = s THEN r
                                      ELSE IF Available(x) THEN NoRequest ELSE req[x]]
           /\ resp' = [x \in Slots |-> IF x = s \/ Available(x) THEN NoResponse ELSE resp[x]]
           /\ obs' = [x \in Slots |-> IF x = s THEN seen
                                      ELSE IF Available(x) THEN NoObs ELSE obs[x]]
    /\ admitted' = admitted + 1
    /\ UNCHANGED <<now, cache, completed, env>>

\* lines 178-194 and 213-229: cache.match resolves
CacheMatch(s) ==
    /\ pc[s] = "match"
    /\ LET m == CacheMatchResult(cache, loc[s].cacheKey)
           expired == m.found /\ IsExpired(m.response, loc[s].clientTTL, now)
           hit == m.found /\ ~expired
       IN  /\ obs' = [obs EXCEPT ![s].ops = @ \cup {"match"},
                                 ![s].found = IF ~m.found THEN "none"
                                              ELSE IF expired THEN "stale" ELSE "fresh",
                                 ![s].entry = IF m.found
                                              THEN [request |-> m.request,
                                                    response |-> m.response]
                                              ELSE NoObs.entry,
                                 ![s].lookupAt = IF m.found THEN now ELSE 0,
                                 ![s].priorFresh =
                                     \E t \in obs[s].prior :
                                         AgeInSeconds(now, t) <= loc[s].clientTTL]
           /\ loc' = [loc EXCEPT ![s].cacheExpired = expired]
           /\ IF hit
              THEN /\ resp' = [resp EXCEPT ![s] =
                                 HitResponse(m.response, loc[s].clientTTL, now)]
                   /\ pc' = [pc EXCEPT ![s] = "done"]
              ELSE /\ resp' = resp
                   /\ pc' = [pc EXCEPT ![s] = "fetch"]
    /\ UNCHANGED <<now, cache, req, admitted, completed, env>>

\* lines 197-212: the origin answers a miss
FetchOrigin(s) ==
    /\ pc[s] = "fetch"
    /\ \E o \in OriginResponses(createHasuraRequest(req[s], req[s].body), now) :
          LET response == MissResponse(o, loc[s].cacheExpired, loc[s].clientTTL, now)
          IN  /\ resp' = [resp EXCEPT ![s] = response]
              /\ IF IsCacheable(response)
                 THEN /\ loc' = [loc EXCEPT ![s].stored = response]
                      /\ pc' = [pc EXCEPT ![s] = "put"]
                 ELSE /\ loc' = loc
                      /\ pc' = [pc EXCEPT ![s] = "done"]
              /\ obs' = [obs EXCEPT ![s].calls = @ + 1, ![s].origin = o]
    /\ UNCHANGED <<now, cache, req, admitted, completed, env>>

\* line 200: fetch rejects; handlePostRequest's promise rejects
FetchOriginFails(s) ==
    /\ pc[s] = "fetch"
    /\ resp' = [resp EXCEPT ![s] = WorkerException]
    /\ pc' = [pc EXCEPT ![s] = "done"]
    /\ obs' = [obs EXCEPT ![s].calls = @ + 1]
    /\ UNCHANGED <<now, cache, req, loc, admitted, completed, env>>

\* mutant of CachePut: the store is abandoned when the response has been sent
CachePut_Abandoned(s) ==
    /\ pc[s] = "put"
    /\ pc' = [pc EXCEPT ![s] = "done"]
    /\ UNCHANGED <<now, cache, req, loc, resp, obs, admitted, completed, env>>

\* line 212: the cache.put given to event.waitUntil completes
CachePut(s) ==
    /\ pc[s] = "put"
    /\ cache' = CachePutResult(cache, loc[s].cacheKey, loc[s].stored)
    /\ pc' = [pc EXCEPT ![s] = "done"]
    /\ obs' = [obs EXCEPT ![s].ops = @ \cup {"put"}]
    /\ completed' = completed \cup
          {[id |-> Identity(req[s]),
            t |-> HeadersGet(loc[s].stored.headers, "X-GQL-Cache-Time")]}
    /\ UNCHANGED <<now, req, loc, resp, admitted, env>>

\* lines 230-237: the origin answers a mutation
ForwardMutation(s) ==
    /\ pc[s] = "forward"
    /\ \E o \in OriginResponses(createHasuraRequest(req[s], req[s].body), now) :
          /\ resp' = [resp EXCEPT ![s] = MutationResponse(o)]
          /\ obs' = [obs EXCEPT ![s].calls = @ + 1, ![s].origin = o]
    /\ pc' = [pc EXCEPT ![s] = "done"]
    /\ UNCHANGED <<now, cache, req, loc, admitted, completed, env>>

\* line 233: fetch rejects
ForwardMutationFails(s) ==
    /\ pc[s] = "forward"
    /\ resp' = [resp EXCEPT ![s] = WorkerException]
    /\ pc' = [pc EXCEPT ![s] = "done"]
    /\ obs' = [obs EXCEPT ![s].calls = @ + 1]
    /\ UNCHANGED <<now, cache, req, loc, admitted, completed, env>>

\* an event that the listener's handler answers without awaiting anything
\* shared
AnswerAtOnce(s, r, response) ==
    /\ FirstAvailable(s)
    /\ admitted < MaxRequests
    /\ pc' = [x \in Slots |-> IF x = s THEN "done"
                              ELSE IF Available(x) THEN "idle" ELSE pc[x]]
    /\ req' = [x \in Slots |-> IF x = s THEN r
                               ELSE IF Available(x) THEN NoRequest ELSE req[x]]
    /\ loc' = [x \in Slots |-> IF x = s \/ Available(x) THEN NoLocals ELSE loc[x]]
    /\ resp' = [x \in Slots |-> IF x = s THEN response
                                ELSE IF Available(x) THEN NoResponse ELSE resp[x]]
    /\ obs' = [x \in Slots |-> IF x = s \/ Available(x) THEN NoObs ELSE obs[x]]
    /\ admitted' = admitted + 1
    /\ UNCHANGED <<now, cache, completed, env>>

\* lines 251-253
AuthWebhook(s, r) ==
    /\ Route(r) = "auth"
    /\ AnswerAtOnce(s, r, handleAuthWebhook(r, env))

\* line 260
NonCached(s, r) ==
    /\ Route(r) = "notfound"
    /\ AnswerAtOnce(s, r, handleNonCachedRequest(r))

\* wall-clock time passes
Tick ==
    /\ now < MaxTicks * TickMs
    /\ now' = now + TickMs
    /\ UNCHANGED <<cache, pc, req, loc, resp, obs, admitted, completed, env>>

Next ==
    \/ \E s \in Slots, r \in Requests : Receive(s, r)
    \/ \E s \in Slots : CacheMatch(s)
    \/ \E s \in Slots : FetchOrigin(s)
    \/ \E s \in Slots : FetchOriginFails(s)
    \/ \E s \in Slots : CachePut(s)
    \/ \E s \in Slots : ForwardMutation(s)
    \/ \E s \in Slots : ForwardMutationFails(s)
    \/ Tick

Spec == Init /\ [][Next]_vars

\* queries on two keys, with the scheduling that event.waitUntil (line 212)
\* gives: the worker is kept alive until the cache.put it was given has
\* settled
StoreRequests ==
    { MakeRequest("", t, <<"u", "1">>, BodyQuery) : t \in {Null, Text(<<"9">>)} }

NextStore ==
    \/ \E s \in Slots, r \in StoreRequests : Receive(s, r)
    \/ \E s \in Slots : CacheMatch(s)
    \/ \E s \in Slots : FetchOrigin(s)
    \/ \E s \in Slots : FetchOriginFails(s)
    \/ \E s \in Slots : CachePut(s)
    \/ Tick

StoreSpec ==
    Init /\ [][NextStore]_vars /\ \A s \in Slots : WF_vars(CachePut(s))

\* the webhook alone, under every deployment
NextAuth == \E s \in Slots, r \in WebhookRequests : AuthWebhook(s, r)

AuthSpec == InitAnyEnvironment /\ [][NextAuth]_vars

\* the whole listener: every route, and every kind of body
NextListener ==
    \/ \E s \in Slots, r \in RoutedRequests : Receive(s, r)
    \/ \E s \in Slots, r \in RoutedRequests : AuthWebhook(s, r)
    \/ \E s \in Slots, r \in RoutedRequests : NonCached(s, r)
    \/ \E s \in Slots : CacheMatch(s)
    \/ \E s \in Slots : FetchOrigin(s)
    \/ \E s \in Slots : FetchOriginFails(s)
    \/ \E s \in Slots : CachePut(s)
    \/ \E s \in Slots : ForwardMutation(s)
    \/ \E s \in Slots : ForwardMutationFails(s)

ListenerSpec == Init /\ [][NextListener]_vars

(***************************************************************************)
(* Observations used by the properties                                     *)
(***************************************************************************)
\* the event has been answered (a cache.put may still be outstanding)
Responded(s) == pc[s] \in {"put", "done"}

\* answered by handlePostRequest itself, not by the runtime after a rejection
Answered(s) == Responded(s) /\ resp[s] # WorkerException

IsQueryEvent(s) ==
    pc[s] # "idle" /\ Route(req[s]) = "graphql" /\ ~loc[s].isMutation

CacheStatus(s) == HeadersGet(resp[s].headers, "X-Cache-Status")

\* the store time and TTL recorded in a stored response
StoredAt(response) == parseInt(HeadersGet(response.headers, "X-GQL-Cache-Time")).v

RecordedTTL(response) == parseInt(HeadersGet(response.headers, "X-Cache-TTL"))

\* whole seconds between a stored response's store time and the lookup
LookupAge(s) == (obs[s].lookupAt - StoredAt(obs[s].entry.response)) \div 1000

Looked(s) == obs[s].found \in {"fresh", "stale"}

(***************************************************************************)
(* C1.  A query whose key has no stored entry and whose origin response    *)
(* has status 200 is answered X-Cache-Status MISS after exactly one origin *)
(* call; an identical request (same URL, X-Cache-TTL header and body)      *)
(* received after an earlier one was answered with status 200 and its      *)
(* store finished, and looked up within the TTL of that answer, is         *)
(* answered X-Cache-Status HIT with no origin call and an X-Cache-Age >= 0.*)
(***************************************************************************)
C1_MissThenHit ==
    \A s \in Slots :
        (IsQueryEvent(s) /\ Answered(s)) =>
            /\ (obs[s].found = "none" /\ obs[s].origin.status = STATUS_OK) =>
                  /\ CacheStatus(s) = Text(S_MISS)
                  /\ obs[s].calls = 1
            /\ (obs[s].prior # {} /\ obs[s].priorFresh) =>
                  /\ CacheStatus(s) = Text(S_HIT)
                  /\ obs[s].calls = 0
                  /\ LET age == parseInt(HeadersGet(resp[s].headers, "X-Cache-Age"))
                     IN  ~age.nan /\ age.v >= 0

(***************************************************************************)
(* C2.  A mutation request never touches the cache store (no cache.match,  *)
(* no cache.put, and no entry is ever stored under the key its body would  *)
(* derive); once it is done the origin was called exactly once, and when   *)
(* the origin answered, the answer is relayed with X-Cache-Status MUTATION.*)
(***************************************************************************)
C2_MutationBypassesCache ==
    /\ \A s \in Slots :
          (pc[s] # "idle" /\ req[s].body = BodyMutation) =>
              /\ pc[s] \in {"forward", "done"}
              /\ obs[s].ops = {}
              /\ obs[s].found = "na"
              /\ pc[s] = "forward" => obs[s].calls = 0
              /\ pc[s] = "done" =>
                    /\ obs[s].calls = 1
                    /\ Answered(s) =>
                          /\ CacheStatus(s) = Text(S_MUTATION)
                          /\ resp[s].status = obs[s].origin.status
                          /\ resp[s].body = obs[s].origin.body
    /\ \A r \in Requests :
          r.body = BodyMutation =>
              CacheIndex(createCacheKey(r, r.body)) \notin DOMAIN cache

C2_Witness ==
    \E s \in Slots :
        /\ req[s].body = BodyMutation
        /\ pc[s] = "done"
        /\ CacheStatus(s) = Text(S_MUTATION)
        /\ cache # <<>>

(***************************************************************************)
(* C3.  Every stored response has status 200.  A non-200 origin response   *)
(* on a miss is relayed with its status and body, the event registers no   *)
(* cache.put, and no response served from the store has another status.   *)
(***************************************************************************)
C3_OnlySuccessStored ==
    /\ \A u \in DOMAIN cache : cache[u].response.status = STATUS_OK
    /\ \A s \in Slots :
          (IsQueryEvent(s) /\ obs[s].origin.status \notin {0, STATUS_OK}) =>
              /\ pc[s] = "done"
              /\ resp[s].status = obs[s].origin.status
              /\ resp[s].body = obs[s].origin.body
              /\ "put" \notin obs[s].ops
              /\ loc[s].stored = NoResponse
    /\ \A s \in Slots :
          obs[s].found = "fresh" => resp[s].status = STATUS_OK

C3_Witness ==
    \E s \in Slots :
        /\ IsQueryEvent(s)
        /\ pc[s] = "done"
        /\ obs[s].origin.status = 500
        /\ resp[s].status = 500
        /\ CacheIndex(loc[s].cacheKey) \notin DOMAIN cache

(***************************************************************************)
(* C4.  A looked-up entry is judged expired exactly when its age in whole  *)
(* seconds, floor((now - storedAt) / 1000), exceeds the entry's TTL; an    *)
(* entry of age equal to its TTL is served; an expired entry is never the  *)
(* response returned.                                                      *)
(***************************************************************************)
C4_FreshnessBoundary ==
    \A s \in Slots :
        Looked(s) =>
            /\ obs[s].found = "stale" <=>
                  LookupAge(s) > RecordedTTL(obs[s].entry.response).v
            /\ obs[s].found = "fresh" =>
                  /\ pc[s] = "done"
                  /\ resp[s].body = obs[s].entry.response.body
                  /\ HeadersGet(resp[s].headers, "X-Cache-Age") =
                        Text(IntToString(LookupAge(s)))
            /\ obs[s].found = "stale" =>
                  /\ obs[s].calls = 0 => pc[s] = "fetch"
                  /\ Answered(s) =>
                        /\ resp[s].body = obs[s].origin.body
                        /\ StoredAt(resp[s]) # StoredAt(obs[s].entry.response)

C4_Witness ==
    \E s \in Slots :
        /\ obs[s].found = "fresh"
        /\ LookupAge(s) = RecordedTTL(obs[s].entry.response).v
        /\ obs[s].lookupAt - StoredAt(obs[s].entry.response) >
              1000 * RecordedTTL(obs[s].entry.response).v

(***************************************************************************)
(* C5.  A query that finds an entry older than its TTL calls the origin    *)
(* again and, when the origin answers, returns that answer annotated       *)
(* X-Cache-Status EXPIRED.                                                 *)
(***************************************************************************)
C5_ExpiredRefetch ==
    \A s \in Slots :
        (obs[s].found = "stale" /\ Responded(s)) =>
            /\ obs[s].calls = 1
            /\ Answered(s) =>
                  /\ CacheStatus(s) = Text(S_EXPIRED)
                  /\ resp[s].status = obs[s].origin.status
                  /\ resp[s].body = obs[s].origin.body

C5_Witness ==
    \E s \in Slots :
        /\ obs[s].found = "stale"
        /\ LookupAge(s) > loc[s].clientTTL
        /\ Answered(s)
        /\ CacheStatus(s) = Text(S_EXPIRED)

(***************************************************************************)
(* C6.  A response stored for a request with one Authorization header is   *)
(* never served as a HIT to a request with another Authorization header.   *)
(***************************************************************************)
C6_NoCrossAuthHit ==
    \A s \in Slots :
        obs[s].found = "fresh" =>
            HeadersGet(obs[s].entry.request.headers, "Authorization") =
                HeadersGet(req[s].headers, "Authorization")

(***************************************************************************)
(* C7.  Two query requests with the same URL, the same effective TTL and   *)
(* the same body derive the same cache key.                                *)
(***************************************************************************)
C7_SameEffectiveTTLSameKey ==
    \A s1, s2 \in Slots :
        (/\ IsQueryEvent(s1) /\ IsQueryEvent(s2)
         /\ req[s1].url = req[s2].url
         /\ loc[s1].clientTTL = loc[s2].clientTTL
         /\ req[s1].body = req[s2].body) =>
            CacheIndex(loc[s1].cacheKey) = CacheIndex(loc[s2].cacheKey)

(***************************************************************************)
(* C8.  Query requests that differ in effective TTL or in body derive      *)
(* different cache keys; the key of a request is never the key of a stored *)
(* entry recorded with another TTL, and an entry that a request finds was  *)
(* stored with the request's own effective TTL.                            *)
(***************************************************************************)
C8_DifferentTTLOrBodyDifferentKey ==
    /\ \A s1, s2 \in Slots :
          (/\ IsQueryEvent(s1) /\ IsQueryEvent(s2)
           /\ \/ loc[s1].clientTTL # loc[s2].clientTTL
              \/ req[s1].body # req[s2].body) =>
              CacheIndex(loc[s1].cacheKey) # CacheIndex(loc[s2].cacheKey)
    /\ \A s \in Slots : \A u \in DOMAIN cache :
          (IsQueryEvent(s) /\ RecordedTTL(cache[u].response).v # loc[s].clientTTL) =>
              u # CacheIndex(loc[s].cacheKey)
    /\ \A s \in Slots :
          Looked(s) => RecordedTTL(obs[s].entry.response).v = loc[s].clientTTL

C8_Witness ==
    \E s \in Slots : \E u \in DOMAIN cache :
        /\ IsQueryEvent(s)
        /\ Responded(s)
        /\ obs[s].found = "none"
        /\ RecordedTTL(cache[u].response).v > loc[s].clientTTL
        /\ cache[u].request.url.search = req[s].url.search
        /\ u.pathname[4] = loc[s].cacheKey.url.pathname[4]

IsWebhookEvent(s) == pc[s] = "done" /\ Route(req[s]) = "auth"

\* the role of a JSON role decision
DecidedRole(response) == response.body.credentials

FetchRejected(s) ==
    pc[s] = "done" /\ obs[s].calls = 1 /\ obs[s].origin = NoResponse

C13_FailureCaughtAtBoundary ==
    \A s \in Slots : FetchRejected(s) => resp[s] = ErrorThrown

(***************************************************************************)
(* C14.  A POST /v1/graphql request with the header X-Skip-Cache: 1 is     *)
(* never answered from a stored entry: it is forwarded to the origin.      *)
(***************************************************************************)
SkipsCache(r) == HeadersGet(r.headers, "X-Skip-Cache") = Text(<<"1">>)

C14_SkipCacheBypasses ==
    \A s \in Slots :
        (pc[s] = "done" /\ Route(req[s]) = "graphql" /\ SkipsCache(req[s])) =>
            /\ obs[s].found # "fresh"
            /\ obs[s].calls = 1

(***************************************************************************)
(* C15.  An OPTIONS request is forwarded to the origin, its response is    *)
(* annotated X-Cache-Status OPTIONS, and it is not stored.                 *)
(***************************************************************************)
C15_OptionsPassedThrough ==
    \A s \in Slots :
        (pc[s] = "done" /\ req[s].method = "OPTIONS") =>
            /\ obs[s].calls = 1
            /\ CacheStatus(s) = Text(<<"O", "P", "T", "I", "O", "N", "S">>)
            /\ "put" \notin obs[s].ops

(***************************************************************************)
(* C16.  An event is handled by handlePostRequest exactly when its path is *)
(* /v1/graphql and its method POST, and by handleAuthWebhook exactly when  *)
(* its path is /auth and its method GET; every other event (OPTIONS        *)
(* included) is answered 404 at once, with no origin call and no           *)
(* cache.match or cache.put.                                               *)
(***************************************************************************)
\* the event went through handlePostRequest: it awaits or has done a
\* cache.match or an origin call
InOrchestrator(s) ==
    \/ pc[s] \in {"match", "fetch", "forward", "put"}
    \/ "match" \in obs[s].ops
    \/ obs[s].calls > 0

InWebhook(s) ==
    pc[s] = "done" /\ resp[s] \in {Forbidden, RoleDecision(S_user)}

C16_Routing ==
    \A s \in Slots :
        pc[s] # "idle" =>
            LET graphql == req[s].url.pathname = <<"v1", "graphql">> /\ req[s].method = "POST"
                auth == req[s].url.pathname = <<"auth">> /\ req[s].method = "GET"
            IN  /\ InOrchestrator(s) <=> graphql
                /\ InWebhook(s) <=> auth
                /\ (~graphql /\ ~auth) =>
                      /\ pc[s] = "done"
                      /\ resp[s].status = 404
                      /\ obs[s].calls = 0
                      /\ obs[s].ops = {}
                      /\ obs[s].found = "na"

C16_Witness ==
    \E s \in Slots :
        /\ pc[s] = "done"
        /\ req[s].url.pathname = GraphqlPath
        /\ req[s].method = "GET"
        /\ resp[s] = NotFound
        /\ cache # <<>>

(***************************************************************************)
(* C17.  A POST /v1/graphql body is classified as a mutation exactly when  *)
(* it parses as a JSON object whose `query` is a string that, whitespace   *)
(* skipped, begins with "mutation"; every other body (invalid JSON, JSON   *)
(* null or string, absent or numeric query, any other document) is a query *)
(* and takes the cacheable path through cache.match, while a mutation      *)
(* never reaches cache.match.                                              *)
(***************************************************************************)
RECURSIVE BeginsSkippingSpace(_, _)
BeginsSkippingSpace(q, w) ==
    IF w = <<>> THEN TRUE
    ELSE IF q = <<>> THEN FALSE
    ELSE IF IsSpace(Head(q)) THEN BeginsSkippingSpace(Tail(q), w)
    ELSE Head(q) = Head(w) /\ BeginsSkippingSpace(Tail(q), Tail(w))

C17_Classification ==
    \A s \in Slots :
        (pc[s] # "idle" /\ Route(req[s]) = "graphql") =>
            LET b == req[s].body
                mutation == /\ b.json = "object"
                            /\ b.qtype = "string"
                            /\ BeginsSkippingSpace(b.query, <<"m", "u", "t", "a", "t", "i", "o", "n">>)
            IN  /\ loc[s].isMutation <=> mutation
                /\ mutation =>
                      /\ pc[s] \in {"forward", "done"}
                      /\ obs[s].ops = {}
                /\ ~mutation =>
                      /\ pc[s] \in {"match", "fetch", "put", "done"}
                      /\ pc[s] # "match" => "match" \in obs[s].ops

C17_Witness ==
    \E s \in Slots :
        /\ req[s].body = BodyNumberQuery
        /\ obs[s].found = "fresh"
        /\ pc[s] = "done"

(***************************************************************************)
(* C18.  Misses are not de-duplicated: a query that finds no fresh entry   *)
(* goes on to its own origin call whatever the other events are doing,     *)
(* every status-200 answer is given to its own cache.put, and a completed  *)
(* cache.put leaves under the key exactly the request/response pair it was *)
(* given (the store changes in no other way), so that the entry is the     *)
(* one written by the last store to complete; a stored response is one     *)
(* origin answer, its data, store time and TTL belonging together.         *)
(***************************************************************************)
C18_NoDedupLastWriteWins ==
    /\ [](\A u \in DOMAIN cache :
             /\ CacheIndex(cache[u].request) = u
             /\ cache[u].response.body.kind = "data"
             /\ cache[u].response.body.asOf = StoredAt(cache[u].response)
             /\ cache[u].response.body.credentials =
                   HeadersGet(cache[u].request.headers, "Authorization")
             /\ Len(cache[u].response.headers["X-GQL-Cache-Time"]) = 1
             /\ Len(cache[u].response.headers["X-Cache-TTL"]) = 1)
    /\ [][\A s \in Slots :
             /\ (pc[s] = "match" /\ pc'[s] # "match" /\ obs'[s].found # "fresh") =>
                   pc'[s] = "fetch"
             /\ (pc[s] = "fetch" /\ pc'[s] # "fetch") =>
                   /\ obs'[s].calls = 1
                   /\ obs'[s].origin.status = STATUS_OK =>
                         /\ pc'[s] = "put"
                         /\ loc'[s].stored.body = obs'[s].origin.body
             /\ (pc[s] = "put" /\ pc'[s] # "put") =>
                   /\ DOMAIN cache' = DOMAIN cache \cup {CacheIndex(loc[s].cacheKey)}
                   /\ cache'[CacheIndex(loc[s].cacheKey)] =
                         [request |-> loc[s].cacheKey, response |-> loc[s].stored]
                   /\ \A u \in DOMAIN cache :
                         u # CacheIndex(loc[s].cacheKey) => cache'[u] = cache[u]
             /\ cache' # cache => \E x \in Slots : pc[x] = "put" /\ pc'[x] = "done"]_vars

C18_Witness ==
    \E s1, s2 \in Slots :
        /\ s1 # s2
        /\ pc[s1] = "done" /\ pc[s2] = "done"
        /\ loc[s1].cacheKey = loc[s2].cacheKey
        /\ obs[s1].found = "none" /\ obs[s2].found = "none"
        /\ "put" \in obs[s1].ops /\ "put" \in obs[s2].ops
        /\ loc[s1].stored # loc[s2].stored
        /\ cache[CacheIndex(loc[s1].cacheKey)].response = loc[s1].stored
        /\ StoredAt(loc[s1].stored) < StoredAt(loc[s2].stored)

(***************************************************************************)
(* C19 as claimed.  Once an event that judged an entry expired is done,    *)
(* the store no longer holds that entry under the key.                     *)
(***************************************************************************)
C19_StaleAlwaysOverwritten ==
    \A s \in Slots :
        (obs[s].found = "stale" /\ pc[s] = "done") =>
            cache[CacheIndex(loc[s].cacheKey)] # obs[s].entry

(***************************************************************************)
(* C19 as amended.  An entry judged expired is not served.  When the       *)
(* origin then answers with status 200, the event's cache.put replaces the *)
(* entry under the key by the new, later response; when the origin answers *)
(* with another status or the fetch fails, the event writes nothing and    *)
(* leaves the store as it is.                                              *)
(***************************************************************************)
C19_StaleOverwrittenOnSuccess ==
    [][\A s \in Slots :
          obs[s].found = "stale" =>
              /\ (pc[s] = "fetch" /\ pc'[s] = "put") =>
                    /\ obs'[s].origin.status = STATUS_OK
                    /\ resp'[s].body = obs'[s].origin.body
                    /\ resp'[s].body # obs[s].entry.response.body
              /\ (pc[s] = "put" /\ pc'[s] = "done") =>
                    /\ cache'[CacheIndex(loc[s].cacheKey)].response = loc[s].stored
                    /\ cache'[CacheIndex(loc[s].cacheKey)] # obs[s].entry
                    /\ StoredAt(cache'[CacheIndex(loc[s].cacheKey)].response) >
                          StoredAt(obs[s].entry.response)
              /\ (pc[s] = "fetch" /\ pc'[s] = "done") =>
                    /\ obs'[s].origin.status # STATUS_OK
                    /\ resp'[s].body # obs[s].entry.response.body
                    /\ cache' = cache]_vars

C19_Witness ==
    \E s \in Slots :
        /\ obs[s].found = "stale"
        /\ pc[s] = "done"
        /\ obs[s].origin.status = STATUS_OK
        /\ "put" \in obs[s].ops
        /\ cache[CacheIndex(loc[s].cacheKey)].response = loc[s].stored
        /\ cache[CacheIndex(loc[s].cacheKey)] # obs[s].entry

(***************************************************************************)
(* C20.  When the origin answers a miss with status 200 the event is       *)
(* answered at that step, before the store is written: while its cache.put *)
(* is outstanding the response has been returned and is the one to be      *)
(* stored.  Every cache.put that was started completes: the event reaches  *)
(* done with the pair it was given stored.                                 *)
(***************************************************************************)
C20_BackgroundStore ==
    /\ [][\A s \in Slots :
             (pc[s] = "fetch" /\ obs'[s].origin.status = STATUS_OK) =>
                /\ pc'[s] = "put"
                /\ resp'[s] = loc'[s].stored
                /\ cache' = cache]_vars
    /\ [](\A s \in Slots :
             pc[s] = "put" =>
                /\ resp[s].status = STATUS_OK
                /\ resp[s] = loc[s].stored
                /\ "put" \notin obs[s].ops)
    /\ \A s \in Slots :
          (pc[s] = "put") ~>
              (/\ pc[s] = "done"
               /\ "put" \in obs[s].ops
               /\ CacheIndex(loc[s].cacheKey) \in DOMAIN cache
               /\ cache[CacheIndex(loc[s].cacheKey)].response = loc[s].stored)

C20_Witness ==
    \E s \in Slots :
        /\ pc[s] = "put"
        /\ resp[s].status = STATUS_OK
        /\ CacheStatus(s) = Text(S_MISS)
        /\ CacheIndex(loc[s].cacheKey) \notin DOMAIN cache

(***************************************************************************)
(* C21.  A response served from the cache (the hit branch, lines 213-228)  *)
(* has status 200 and the payload of a status-200 origin response that a   *)
(* non-mutation request with the same URL, the same key TTL and the same   *)
(* body obtained and stored no later than the lookup: the payload is the   *)
(* one the origin produced for that request's forwarded document and       *)
(* headers at the store time recorded in the entry.  It holds under every  *)
(* interleaving of the events' await points.                               *)
(***************************************************************************)
C21_HitServesBackendContent ==
    \A s \in Slots :
        obs[s].found = "fresh" =>
            LET e == obs[s].entry
                cacheTime == HeadersGet(e.response.headers, "X-GQL-Cache-Time")
                storedAt == parseInt(cacheTime).v
            IN  /\ pc[s] = "done"
                /\ obs[s].calls = 0
                /\ resp[s].status = STATUS_OK
                /\ resp[s].body.kind = "data"
                /\ storedAt <= obs[s].lookupAt
                /\ \E p \in Requests :
                      /\ ~blockMutation(p)
                      /\ p.url = req[s].url
                      /\ KeyTTL(p) = KeyTTL(req[s])
                      /\ p.body = req[s].body
                      /\ [id |-> Identity(p), t |-> cacheTime] \in completed
                      /\ \E o \in OriginResponses(
                                     createHasuraRequest(p, p.body), storedAt) :
                            /\ o.status = STATUS_OK
                            /\ resp[s].status = o.status
                            /\ resp[s].body = o.body

\* a hit on an entry stored at an earlier time by a request with another
\* Authorization header, by an event that was received before that store
\* had finished
C21_Witness ==
    \E s \in Slots :
        /\ obs[s].found = "fresh"
        /\ HeadersGet(req[s].headers, "Authorization") = Text(<<"u", "2">>)
        /\ HeadersGet(obs[s].entry.request.headers, "Authorization") = Text(<<"u", "1">>)
        /\ Identity(req[s]) = Identity(MakeRequest("", Null, <<"u", "1">>, BodyQuery))
        /\ obs[s].prior = {}
        /\ StoredAt(obs[s].entry.response) < obs[s].lookupAt

(***************************************************************************)
(* C22.  A GET /auth request that carries none of CF-Connecting-IP,        *)
(* X-Forwarded-For and X-Real-IP is answered 200 with a role exactly when  *)
(* neither ALLOWED_IPS nor HASURA_K8S_CLUSTER_IP is configured; when       *)
(* either is configured it is answered 403 and the answer carries no role. *)
(***************************************************************************)
C22_UnresolvedSourceRejected ==
    \A s \in Slots :
        (/\ IsWebhookEvent(s)
         /\ DOMAIN req[s].headers \cap
                {"CF-Connecting-IP", "X-Forwarded-For", "X-Real-IP"} = {}) =>
            LET configured(x) == x.present /\ Len(x.value) > 0
                permitAll == /\ ~configured(env.ALLOWED_IPS)
                             /\ ~configured(env.HASURA_K8S_CLUSTER_IP)
            IN  /\ resp[s].status = STATUS_OK <=> permitAll
                /\ permitAll =>
                      /\ resp[s].body.kind = "role"
                      /\ DecidedRole(resp[s]) = Text(S_user)
                /\ ~permitAll =>
                      /\ resp[s].status = 403
                      /\ resp[s].body.kind # "role"
                      /\ DecidedRole(resp[s]) = Null

\* allow-list "10.0.0.1," (its last entry is empty) and prefix rule
\* "10.0.0.0/8": the request without a source IP is rejected
C22_Witness ==
    \E s \in Slots :
        /\ IsWebhookEvent(s)
        /\ req[s].headers = NoHeaders
        /\ env.ALLOWED_IPS = Text(IP_10_0_0_1 \o <<",">>)
        /\ env.HASURA_K8S_CLUSTER_IP = Text(S_10 \o <<"0", ".", "0", ".", "0", "/", "8">>)
        /\ resp[s].status = 403

====
